---- MODULE Spec2Model ----
(***************************************************************************)
(* A model of a2s.py: the audio -> transcript -> summary -> query pipeline *)
(* with its on-disk cache.  Text is a sequence of one-character strings,   *)
(* the cache directory is a map from file names to file contents, and one  *)
(* invocation of main runs at a time.                                      *)
(***************************************************************************)
EXTENDS Integers, Sequences, FiniteSets, TLC

VARIABLES
    cache_exists,    \* os.path.exists('cache')
    cache,           \* the files of the cache directory: name -> content
    pc,              \* position of the running invocation of main
    args,            \* [audio_file, clear_cache] of the running invocation
    file_hash,       \* main: file_hash
    segments,        \* main: segments
    i,               \* transcribe_audio_segments: segments transcribed so far
    transcriptions,  \* transcribe_audio_segments: transcriptions
    transcript,      \* main: transcript
    chunks,          \* main: chunks
    summaries,       \* summarize_text: summaries
    summary,         \* main: summary
    user_question,   \* query_mode: user_question
    err,             \* the exception that ended the invocation, or "none"
    snapshot,        \* history: the cache files when the invocation started
    prev,            \* history: the previous invocation and how it ended
    transcribed,     \* history: the calls of the transcription service, in order
    summarized,      \* history: the calls of the summarization service, in order
    messages,        \* query_mode: the messages of the last request built
    requests,        \* history: the requests sent to the query service
    origin,          \* history: what each cache file was computed from
    source,          \* history: the audio the transcript and summary come from
    ops,             \* history: the cache lookups and writes of the invocation
    call,            \* the arguments of a library function under test
    ret              \* its return value

vars == <<cache_exists, cache, pc, args, file_hash, segments, i, transcriptions,
          transcript, chunks, summaries, summary, user_question, err, snapshot,
          prev, transcribed, summarized, messages, requests, origin, source,
          ops, call, ret>>

pipeline_vars == <<cache_exists, cache, pc, args, file_hash, segments, i,
                   transcriptions, transcript, chunks, summaries, summary,
                   user_question, err, snapshot, prev, transcribed, summarized,
                   messages, requests, origin, source, ops>>

(***************************************************************************)
(* Bounds of the model.                                                    *)
(***************************************************************************)
\* longest text given to split_transcript under SpecSplitTranscript
MaxTextLen == 6
\* largest chunk size given to split_transcript under SpecSplitTranscript
MaxChunkWords == 3
\* longest audio given to split_audio under SpecSplitAudio
MaxDuration == 12
\* longest segment length given to split_audio under SpecSplitAudio
MaxSegmentLength == 5
\* words per chunk in the pipeline: split_transcript's default of 3000 scaled
\* down so that a transcript of a few words makes several chunks
max_length == 2
\* the most characters a failed cache write leaves in the file
MaxPartialWrite == 1

(***************************************************************************)
(* Program constants.                                                      *)
(***************************************************************************)
\* split_audio's default segment_length, in milliseconds
segment_length == 300000

Min(a, b) == IF a < b THEN a ELSE b

(***************************************************************************)
(* Python's str operations on text.                                        *)
(***************************************************************************)
Whitespace == {" "}

\* str.split(): the maximal runs of non-whitespace characters, in order
RECURSIVE str_split_from(_, _, _)
str_split_from(s, word, words) ==
    IF s = <<>>
    THEN IF word = <<>> THEN words ELSE Append(words, word)
    ELSE IF Head(s) \in Whitespace
         THEN str_split_from(Tail(s), <<>>,
                             IF word = <<>> THEN words ELSE Append(words, word))
         ELSE str_split_from(Tail(s), Append(word, Head(s)), words)

str_split(s) == str_split_from(s, <<>>, <<>>)

\* sep.join(parts)
RECURSIVE str_join(_, _)
str_join(sep, parts) ==
    IF parts = <<>> THEN <<>>
    ELSE IF Len(parts) = 1 THEN parts[1]
    ELSE parts[1] \o sep \o str_join(sep, Tail(parts))

\* str.strip(): drop the whitespace at both ends
RECURSIVE str_lstrip(_)
str_lstrip(s) ==
    IF s # <<>> /\ Head(s) \in Whitespace THEN str_lstrip(Tail(s)) ELSE s

RECURSIVE str_rstrip(_)
str_rstrip(s) ==
    IF s # <<>> /\ s[Len(s)] \in Whitespace
    THEN str_rstrip(SubSeq(s, 1, Len(s) - 1)) ELSE s

str_strip(s) == str_rstrip(str_lstrip(s))

\* str.lower() on the letters the model uses
lower_char(c) ==
    CASE c = "E" -> "e"
      [] c = "X" -> "x"
      [] c = "I" -> "i"
      [] c = "T" -> "t"
      [] OTHER -> c

str_lower(s) == [k \in 1..Len(s) |-> lower_char(s[k])]

(***************************************************************************)
(* split_audio: the slices audio[i:i + segment_length] for                 *)
(* i in range(0, len(audio), segment_length).  A slice is the pair of its  *)
(* start and end offsets; pydub clamps the end of a slice to len(audio).   *)
(***************************************************************************)
\* a split_audio that stops before a final segment shorter than seg_len
RECURSIVE split_audio_from_whole(_, _, _, _)
split_audio_from_whole(start, duration, seg_len, segs) ==
    IF start + seg_len > duration THEN segs
    ELSE split_audio_from_whole(start + seg_len, duration, seg_len,
             Append(segs, [start |-> start, end |-> start + seg_len]))

RECURSIVE split_audio_from(_, _, _, _)
split_audio_from(start, duration, seg_len, segs) ==
    IF start >= duration THEN segs
    ELSE split_audio_from(start + seg_len, duration, seg_len,
             Append(segs, [start |-> start,
                           end |-> Min(start + seg_len, duration)]))

split_audio(duration, seg_len) == split_audio_from(0, duration, seg_len, <<>>)

(***************************************************************************)
(* split_transcript: words = transcript.split(); while words: take the     *)
(* first max_len words as a chunk joined by single spaces.                 *)
(***************************************************************************)
\* a split_transcript whose next chunk starts one word too late
RECURSIVE split_transcript_loop_skip(_, _, _)
split_transcript_loop_skip(words, max_len, acc) ==
    IF words = <<>> THEN acc
    ELSE LET k == Min(max_len, Len(words))
         IN split_transcript_loop_skip(SubSeq(words, k + 2, Len(words)),
                max_len, Append(acc, str_join(<<" ">>, SubSeq(words, 1, k))))

RECURSIVE split_transcript_loop(_, _, _)
split_transcript_loop(words, max_len, acc) ==
    IF words = <<>> THEN acc
    ELSE LET k == Min(max_len, Len(words))
         IN split_transcript_loop(SubSeq(words, k + 1, Len(words)), max_len,
                Append(acc, str_join(<<" ">>, SubSeq(words, 1, k))))

split_transcript(text, max_len) ==
    split_transcript_loop(str_split(text), max_len, <<>>)

(***************************************************************************)
(* The inputs of the pipeline and the external services.                   *)
(***************************************************************************)
\* the audio files on disk; copy.mp3 is byte-identical to talk.mp3
AudioFiles == {"talk.mp3", "copy.mp3", "memo.wav"}

\* the bytes of an audio file
file_bytes(path) == IF path = "memo.wav" THEN "B" ELSE "A"

\* len(AudioSegment.from_file(path)), in milliseconds
audio_len(path) == IF path = "memo.wav" THEN 100000 ELSE 400000

\* hashlib.sha256 of the bytes read in 4096-byte blocks: equal bytes give
\* equal digests, different bytes different digests
calculate_audio_file_hash(path) == <<"sha256", file_bytes(path)>>

NoHash == <<>>

\* what openai.Audio.transcribe may return for a segment
TranscribeTexts == { <<"a">>, <<"b", " ", "c">> }

\* what the gpt-3.5-turbo completion may return for a chunk
SummaryTexts == { <<"x">>, <<" ", "y", " ">> }

\* what input() may return
Lines == { <<"e", "x", "i", "t">>, <<"E", "x", "I", "T">>,
           <<"e", "x", "i", "t", " ">>, <<"h", "i">> }

(***************************************************************************)
(* The cache directory.                                                    *)
(***************************************************************************)
NoFiles == [f \in {} |-> <<>>]

cached_transcript_file(h) == <<h, "transcript">>
\* a summary file name that leaves the hash out: one summary for all inputs
cached_summary_file_shared(h) == <<NoHash, "summary">>
cached_summary_file(h) == <<h, "summary">>

os_path_exists(files, name) == name \in DOMAIN files

\* open(name, 'w') and f.write(text) both succeeding
file_write(files, name, text) ==
    [f \in DOMAIN files \cup {name} |-> IF f = name THEN text ELSE files[f]]

\* the directory after open(name, 'w'); f.write(text) raised: open failed and
\* the directory is as before, or open created the file and the write stopped
\* short
file_write_failed(files, name, text) ==
    {files} \cup
    { file_write(files, name, SubSeq(text, 1, n)) :
          n \in 0..Min(MaxPartialWrite, Len(text) - 1) }

(***************************************************************************)
(* main                                                                    *)
(***************************************************************************)
NoArgs == [audio_file |-> "", clear_cache |-> FALSE]
NoPrev == [kind |-> "none", file_hash |-> NoHash, err |-> "none"]
NoSource == [transcript |-> NoHash, summary |-> NoHash]
NoCall == [fn |-> "none"]
NoRet == [done |-> FALSE, value |-> <<>>]

\* no invocation of main has run yet and the cache directory does not exist
PipelineInit ==
    /\ cache_exists = FALSE
    /\ cache = NoFiles
    /\ pc = "idle"
    /\ args = NoArgs
    /\ file_hash = NoHash
    /\ segments = <<>>
    /\ i = 0
    /\ transcriptions = <<>>
    /\ transcript = <<>>
    /\ chunks = <<>>
    /\ summaries = <<>>
    /\ summary = <<>>
    /\ user_question = <<>>
    /\ err = "none"
    /\ snapshot = NoFiles
    /\ prev = NoPrev
    /\ transcribed = <<>>
    /\ summarized = <<>>
    /\ messages = <<>>
    /\ requests = {}
    /\ origin = NoFiles
    /\ source = NoSource
    /\ ops = <<>>

Init ==
    /\ PipelineInit
    /\ call = NoCall
    /\ ret = NoRet

\* the record of the invocation that just ended
ended ==
    IF pc = "idle" THEN NoPrev
    ELSE [kind |-> IF pc = "done" /\ file_hash = NoHash THEN "clear" ELSE "run",
          file_hash |-> file_hash, err |-> err]

\* python a2s.py audio_file [--clear-cache]: a new process enters main
Invoke ==
    /\ pc \in {"idle", "done", "aborted"}
    /\ \E path \in AudioFiles, clear \in BOOLEAN :
           args' = [audio_file |-> path, clear_cache |-> clear]
    /\ pc' = "main"
    /\ prev' = ended
    /\ snapshot' = cache
    /\ file_hash' = NoHash
    /\ segments' = <<>>
    /\ i' = 0
    /\ transcriptions' = <<>>
    /\ transcript' = <<>>
    /\ chunks' = <<>>
    /\ summaries' = <<>>
    /\ summary' = <<>>
    /\ user_question' = <<>>
    /\ err' = "none"
    /\ transcribed' = <<>>
    /\ summarized' = <<>>
    /\ messages' = <<>>
    /\ requests' = {}
    /\ source' = NoSource
    /\ ops' = <<>>
    /\ UNCHANGED <<cache_exists, cache, call, ret, origin>>

\* a clear-cache that deletes the summary files only
ClearCache_keeps_transcripts ==
    /\ pc = "main"
    /\ args.clear_cache /\ cache_exists
    /\ cache_exists' = cache_exists
    /\ cache' = [f \in {g \in DOMAIN cache : g[2] = "transcript"} |-> cache[f]]
    /\ pc' = "done"
    /\ origin' = [f \in {g \in DOMAIN cache : g[2] = "transcript"} |-> origin[f]]
    /\ UNCHANGED <<args, file_hash, segments, i, transcriptions, transcript,
                   chunks, summaries, summary, user_question, err, snapshot,
                   prev, transcribed, summarized, messages, requests, source,
                   ops, call, ret>>

\* if clear_cache and os.path.exists(cache_dir): shutil.rmtree(cache_dir); return
ClearCache ==
    /\ pc = "main"
    /\ args.clear_cache /\ cache_exists
    /\ cache_exists' = FALSE
    /\ cache' = NoFiles
    /\ pc' = "done"
    /\ origin' = NoFiles
    /\ UNCHANGED <<args, file_hash, segments, i, transcriptions, transcript,
                   chunks, summaries, summary, user_question, err, snapshot,
                   prev, transcribed, summarized, messages, requests, source,
                   ops, call, ret>>

\* os.makedirs(cache_dir, exist_ok=True)
MakeDirs ==
    /\ pc = "main"
    /\ ~(args.clear_cache /\ cache_exists)
    /\ cache_exists' = TRUE
    /\ pc' = "hash"
    /\ UNCHANGED <<cache, args, file_hash, segments, i, transcriptions,
                   transcript, chunks, summaries, summary, user_question, err,
                   snapshot, prev, transcribed, summarized, messages, call,
                   ret, origin, source, requests, ops>>

\* an exception leaves main: the process ends with a traceback
Raise(error) ==
    /\ pc' = "aborted"
    /\ err' = error

\* file_hash = calculate_audio_file_hash(audio_file_path)
Hash ==
    /\ pc = "hash"
    /\ file_hash' = calculate_audio_file_hash(args.audio_file)
    /\ pc' = "lookup_transcript"
    /\ UNCHANGED <<cache_exists, cache, args, segments, i, transcriptions,
                   transcript, chunks, summaries, summary, user_question, err,
                   snapshot, prev, transcribed, summarized, messages, call,
                   ret, origin, source, requests, ops>>

\* open(file_path, 'rb') or f.read raises
HashFail ==
    /\ pc = "hash"
    /\ Raise("IOError")
    /\ UNCHANGED <<cache_exists, cache, args, file_hash, segments, i,
                   transcriptions, transcript, chunks, summaries, summary,
                   user_question, snapshot, prev, transcribed, summarized,
                   messages, call, ret, origin, source, requests, ops>>

\* the chunks sent to the summarization service in this invocation
summarized_contents == [k \in 1..Len(summarized) |-> summarized[k].content]

\* a main that goes straight to the query loop when a transcript is cached
TranscriptHit_to_query ==
    /\ pc = "lookup_transcript"
    /\ os_path_exists(cache, cached_transcript_file(file_hash))
    /\ transcript' = cache[cached_transcript_file(file_hash)]
    /\ pc' = "query_read"
    /\ source' = [source EXCEPT !.transcript = origin[cached_transcript_file(
                                         file_hash)].digest]
    /\ ops' = Append(ops, [op |-> "lookup", file |-> cached_transcript_file(file_hash),
                         found |-> TRUE])
    /\ UNCHANGED <<cache_exists, cache, args, file_hash, segments, i,
                   transcriptions, chunks, summaries, summary, user_question,
                   err, snapshot, prev, transcribed, summarized, messages,
                   call, ret, origin, requests>>

\* os.path.exists(cached_transcript_file): f.read() gives the transcript
TranscriptHit ==
    /\ pc = "lookup_transcript"
    /\ os_path_exists(cache, cached_transcript_file(file_hash))
    /\ transcript' = cache[cached_transcript_file(file_hash)]
    /\ pc' = "lookup_summary"
    /\ source' = [source EXCEPT !.transcript = origin[cached_transcript_file(
                                         file_hash)].digest]
    /\ ops' = Append(ops, [op |-> "lookup", file |-> cached_transcript_file(file_hash),
                         found |-> TRUE])
    /\ UNCHANGED <<cache_exists, cache, args, file_hash, segments, i,
                   transcriptions, chunks, summaries, summary, user_question,
                   err, snapshot, prev, transcribed, summarized, messages,
                   call, ret, origin, requests>>

\* the cached transcript exists and open or f.read raises
TranscriptReadFail ==
    /\ pc = "lookup_transcript"
    /\ os_path_exists(cache, cached_transcript_file(file_hash))
    /\ Raise("IOError")
    /\ ops' = Append(ops, [op |-> "lookup", file |-> cached_transcript_file(file_hash),
                         found |-> TRUE])
    /\ UNCHANGED <<cache_exists, cache, args, file_hash, segments, i,
                   transcriptions, transcript, chunks, summaries, summary,
                   user_question, snapshot, prev, transcribed, summarized,
                   messages, call, ret, origin, source, requests>>

\* a main that transcribes without looking for the cached transcript
TranscriptMiss_unchecked ==
    /\ pc = "lookup_transcript"
    /\ segments' = split_audio(audio_len(args.audio_file), segment_length)
    /\ i' = 0
    /\ transcriptions' = <<>>
    /\ pc' = "transcribing"
    /\ source' = [source EXCEPT
                      !.transcript = calculate_audio_file_hash(args.audio_file)]
    /\ UNCHANGED <<cache_exists, cache, args, file_hash, transcript, chunks,
                   summaries, summary, user_question, err, snapshot, prev,
                   transcribed, summarized, messages, call, ret, origin,
                   requests, ops>>

\* else: segments = split_audio(audio_file_path), and
\* transcribe_audio_segments starts with transcriptions = ''
TranscriptMiss ==
    /\ pc = "lookup_transcript"
    /\ ~os_path_exists(cache, cached_transcript_file(file_hash))
    /\ segments' = split_audio(audio_len(args.audio_file), segment_length)
    /\ i' = 0
    /\ transcriptions' = <<>>
    /\ pc' = "transcribing"
    /\ source' = [source EXCEPT
                      !.transcript = calculate_audio_file_hash(args.audio_file)]
    /\ ops' = Append(ops, [op |-> "lookup", file |-> cached_transcript_file(file_hash),
                         found |-> FALSE])
    /\ UNCHANGED <<cache_exists, cache, args, file_hash, transcript, chunks,
                   summaries, summary, user_question, err, snapshot, prev,
                   transcribed, summarized, messages, call, ret, origin,
                   requests>>

\* a loop that saves the transcriptions to the cache after every segment
TranscribeSegment_caches ==
    /\ pc = "transcribing"
    /\ i < Len(segments)
    /\ \E text \in TranscribeTexts :
           /\ transcriptions' = transcriptions \o text \o <<" ">>
           /\ transcribed' = Append(transcribed,
                                    [segment |-> i + 1, text |-> text])
    /\ i' = i + 1
    /\ cache' = file_write(cache, cached_transcript_file(file_hash),
                           transcriptions')
    /\ origin' = file_write(origin, cached_transcript_file(file_hash),
                            [digest |-> source.transcript, chunks |-> <<>>])
    /\ UNCHANGED <<cache_exists, pc, args, file_hash, segments,
                   transcript, chunks, summaries, summary, user_question, err,
                   snapshot, prev, summarized, messages, call, ret,
                   source, requests, ops>>

\* a loop that puts each new transcription in front of the earlier ones
TranscribeSegment_prepend ==
    /\ pc = "transcribing"
    /\ i < Len(segments)
    /\ \E text \in TranscribeTexts :
           /\ transcriptions' = text \o <<" ">> \o transcriptions
           /\ transcribed' = Append(transcribed,
                                    [segment |-> i + 1, text |-> text])
    /\ i' = i + 1
    /\ UNCHANGED <<cache_exists, cache, pc, args, file_hash, segments,
                   transcript, chunks, summaries, summary, user_question, err,
                   snapshot, prev, summarized, messages, call, ret, origin,
                   source, requests, ops>>

\* one iteration of the loop of transcribe_audio_segments:
\* transcriptions += transcript + ' '
TranscribeSegment ==
    /\ pc = "transcribing"
    /\ i < Len(segments)
    /\ \E text \in TranscribeTexts :
           /\ transcriptions' = transcriptions \o text \o <<" ">>
           /\ transcribed' = Append(transcribed,
                                    [segment |-> i + 1, text |-> text])
    /\ i' = i + 1
    /\ UNCHANGED <<cache_exists, cache, pc, args, file_hash, segments,
                   transcript, chunks, summaries, summary, user_question, err,
                   snapshot, prev, summarized, messages, call, ret, origin,
                   source, requests, ops>>

\* a failure handler that saves the transcriptions made so far
TranscribeFail_saves_partial ==
    /\ pc = "transcribing"
    /\ i < Len(segments)
    /\ Raise("TranscriptionError")
    /\ transcribed' = Append(transcribed, [segment |-> i + 1, text |-> <<>>])
    /\ cache' = file_write(cache, cached_transcript_file(file_hash),
                           transcriptions)
    /\ origin' = file_write(origin, cached_transcript_file(file_hash),
                          [digest |-> source.transcript, chunks |-> <<>>])
    /\ UNCHANGED <<cache_exists, args, file_hash, segments, i, transcriptions,
                   transcript, chunks, summaries, summary, user_question,
                   snapshot, prev, summarized, messages, call, ret, source,
                   requests, ops>>

\* openai.Audio.transcribe raises on segment i + 1
TranscribeFail ==
    /\ pc = "transcribing"
    /\ i < Len(segments)
    /\ Raise("TranscriptionError")
    /\ transcribed' = Append(transcribed, [segment |-> i + 1, text |-> <<>>])
    /\ UNCHANGED <<cache_exists, cache, args, file_hash, segments, i,
                   transcriptions, transcript, chunks, summaries, summary,
                   user_question, snapshot, prev, summarized, messages, call,
                   ret, origin, source, requests, ops>>

\* return transcriptions
TranscribeReturn ==
    /\ pc = "transcribing"
    /\ i = Len(segments)
    /\ transcript' = transcriptions
    /\ pc' = "write_transcript"
    /\ UNCHANGED <<cache_exists, cache, args, file_hash, segments, i,
                   transcriptions, chunks, summaries, summary, user_question,
                   err, snapshot, prev, transcribed, summarized, messages,
                   call, ret, origin, source, requests, ops>>

\* with open(cached_transcript_file, 'w') as f: f.write(transcript)
WriteTranscript ==
    /\ pc = "write_transcript"
    /\ cache' = file_write(cache, cached_transcript_file(file_hash), transcript)
    /\ pc' = "lookup_summary"
    /\ origin' = file_write(origin, cached_transcript_file(file_hash),
                          [digest |-> source.transcript, chunks |-> <<>>])
    /\ ops' = Append(ops, [op |-> "write", file |-> cached_transcript_file(file_hash),
                         found |-> FALSE])
    /\ UNCHANGED <<cache_exists, args, file_hash, segments, i, transcriptions,
                   transcript, chunks, summaries, summary, user_question, err,
                   snapshot, prev, transcribed, summarized, messages, call,
                   ret, source, requests>>

\* a main that swallows the failure of the transcript write and goes on
WriteTranscriptFail_ignored ==
    /\ pc = "write_transcript"
    /\ cache' \in file_write_failed(cache, cached_transcript_file(file_hash),
                                    transcript)
    /\ pc' = "lookup_summary"
    /\ err' = err
    /\ origin' = IF os_path_exists(cache', cached_transcript_file(file_hash))
               THEN file_write(origin, cached_transcript_file(file_hash),
                               [digest |-> source.transcript, chunks |-> <<>>])
               ELSE origin
    /\ ops' = Append(ops, [op |-> "write", file |-> cached_transcript_file(file_hash),
                         found |-> FALSE])
    /\ UNCHANGED <<cache_exists, args, file_hash, segments, i, transcriptions,
                   transcript, chunks, summaries, summary, user_question,
                   snapshot, prev, transcribed, summarized, messages, call,
                   ret, source, requests>>

\* the open or the write of the transcript raises
WriteTranscriptFail ==
    /\ pc = "write_transcript"
    /\ cache' \in file_write_failed(cache, cached_transcript_file(file_hash),
                                    transcript)
    /\ Raise("IOError")
    /\ origin' = IF os_path_exists(cache', cached_transcript_file(file_hash))
               THEN file_write(origin, cached_transcript_file(file_hash),
                               [digest |-> source.transcript, chunks |-> <<>>])
               ELSE origin
    /\ ops' = Append(ops, [op |-> "write", file |-> cached_transcript_file(file_hash),
                         found |-> FALSE])
    /\ UNCHANGED <<cache_exists, args, file_hash, segments, i, transcriptions,
                   transcript, chunks, summaries, summary, user_question,
                   snapshot, prev, transcribed, summarized, messages, call,
                   ret, source, requests>>

\* a main that opens the transcript file where it means the summary file
SummaryHit_reads_transcript ==
    /\ pc = "lookup_summary"
    /\ os_path_exists(cache, cached_summary_file(file_hash))
    /\ summary' = cache[cached_transcript_file(file_hash)]
    /\ pc' = "summary_ready"
    /\ source' = [source EXCEPT !.summary = origin[cached_summary_file(
                                         file_hash)].digest]
    /\ ops' = Append(ops, [op |-> "lookup", file |-> cached_summary_file(file_hash),
                         found |-> TRUE])
    /\ UNCHANGED <<cache_exists, cache, args, file_hash, segments, i,
                   transcriptions, transcript, chunks, summaries,
                   user_question, err, snapshot, prev, transcribed, summarized,
                   messages, call, ret, origin, requests>>

\* os.path.exists(cached_summary_file): f.read() gives the summary
SummaryHit ==
    /\ pc = "lookup_summary"
    /\ os_path_exists(cache, cached_summary_file(file_hash))
    /\ summary' = cache[cached_summary_file(file_hash)]
    /\ pc' = "summary_ready"
    /\ source' = [source EXCEPT !.summary = origin[cached_summary_file(
                                         file_hash)].digest]
    /\ ops' = Append(ops, [op |-> "lookup", file |-> cached_summary_file(file_hash),
                         found |-> TRUE])
    /\ UNCHANGED <<cache_exists, cache, args, file_hash, segments, i,
                   transcriptions, transcript, chunks, summaries,
                   user_question, err, snapshot, prev, transcribed, summarized,
                   messages, call, ret, origin, requests>>

\* the cached summary exists and open or f.read raises
SummaryReadFail ==
    /\ pc = "lookup_summary"
    /\ os_path_exists(cache, cached_summary_file(file_hash))
    /\ Raise("IOError")
    /\ ops' = Append(ops, [op |-> "lookup", file |-> cached_summary_file(file_hash),
                         found |-> TRUE])
    /\ UNCHANGED <<cache_exists, cache, args, file_hash, segments, i,
                   transcriptions, transcript, chunks, summaries, summary,
                   user_question, snapshot, prev, transcribed, summarized,
                   messages, call, ret, origin, source, requests>>

\* a main that summarizes without looking for the cached summary
SummaryMiss_unchecked ==
    /\ pc = "lookup_summary"
    /\ chunks' = split_transcript(transcript, max_length)
    /\ summaries' = <<>>
    /\ pc' = "summarizing"
    /\ UNCHANGED <<cache_exists, cache, args, file_hash, segments, i,
                   transcriptions, transcript, summary, user_question, err,
                   snapshot, prev, transcribed, summarized, messages, call,
                   ret, origin, source, requests, ops>>

\* else: chunks = split_transcript(transcript), and summarize_text starts
\* with summaries = []
SummaryMiss ==
    /\ pc = "lookup_summary"
    /\ ~os_path_exists(cache, cached_summary_file(file_hash))
    /\ chunks' = split_transcript(transcript, max_length)
    /\ summaries' = <<>>
    /\ pc' = "summarizing"
    /\ ops' = Append(ops, [op |-> "lookup", file |-> cached_summary_file(file_hash),
                         found |-> FALSE])
    /\ UNCHANGED <<cache_exists, cache, args, file_hash, segments, i,
                   transcriptions, transcript, summary, user_question, err,
                   snapshot, prev, transcribed, summarized, messages, call,
                   ret, origin, source, requests>>

\* one iteration of the loop of summarize_text:
\* summaries.append(summary.strip())
SummarizeChunk ==
    /\ pc = "summarizing"
    /\ Len(summaries) < Len(chunks)
    /\ \E text \in SummaryTexts :
           /\ summaries' = Append(summaries, str_strip(text))
           /\ summarized' = Append(summarized,
                  [chunk |-> Len(summaries) + 1,
                   content |-> chunks[Len(summaries) + 1], text |-> text])
    /\ UNCHANGED <<cache_exists, cache, pc, args, file_hash, segments, i,
                   transcriptions, transcript, chunks, summary, user_question,
                   err, snapshot, prev, transcribed, messages, call, ret,
                   origin, source, requests, ops>>

\* a failure handler that saves the summaries made so far
SummarizeFail_saves_partial ==
    /\ pc = "summarizing"
    /\ Len(summaries) < Len(chunks)
    /\ Raise("SummarizationError")
    /\ summarized' = Append(summarized,
           [chunk |-> Len(summaries) + 1,
            content |-> chunks[Len(summaries) + 1], text |-> <<>>])
    /\ cache' = file_write(cache, cached_summary_file(file_hash),
                           str_join(<<" ">>, summaries))
    /\ origin' = file_write(origin, cached_summary_file(file_hash),
                          [digest |-> source.summary, chunks |-> summarized_contents])
    /\ UNCHANGED <<cache_exists, args, file_hash, segments, i, transcriptions,
                   transcript, chunks, summaries, summary, user_question,
                   snapshot, prev, transcribed, messages, call, ret, source,
                   requests, ops>>

\* openai.ChatCompletion.create raises on chunk len(summaries) + 1
SummarizeFail ==
    /\ pc = "summarizing"
    /\ Len(summaries) < Len(chunks)
    /\ Raise("SummarizationError")
    /\ summarized' = Append(summarized,
           [chunk |-> Len(summaries) + 1,
            content |-> chunks[Len(summaries) + 1], text |-> <<>>])
    /\ UNCHANGED <<cache_exists, cache, args, file_hash, segments, i,
                   transcriptions, transcript, chunks, summaries, summary,
                   user_question, snapshot, prev, transcribed, messages, call,
                   ret, origin, source, requests, ops>>

\* return " ".join(summaries)
SummarizeReturn ==
    /\ pc = "summarizing"
    /\ Len(summaries) = Len(chunks)
    /\ summary' = str_join(<<" ">>, summaries)
    /\ pc' = "write_summary"
    /\ source' = [source EXCEPT !.summary = source.transcript]
    /\ UNCHANGED <<cache_exists, cache, args, file_hash, segments, i,
                   transcriptions, transcript, chunks, summaries,
                   user_question, err, snapshot, prev, transcribed, summarized,
                   messages, call, ret, origin, requests, ops>>

\* with open(cached_summary_file, 'w') as f: f.write(summary)
WriteSummary ==
    /\ pc = "write_summary"
    /\ cache' = file_write(cache, cached_summary_file(file_hash), summary)
    /\ pc' = "summary_ready"
    /\ origin' = file_write(origin, cached_summary_file(file_hash),
                          [digest |-> source.summary, chunks |-> summarized_contents])
    /\ ops' = Append(ops, [op |-> "write", file |-> cached_summary_file(file_hash),
                         found |-> FALSE])
    /\ UNCHANGED <<cache_exists, args, file_hash, segments, i, transcriptions,
                   transcript, chunks, summaries, summary, user_question, err,
                   snapshot, prev, transcribed, summarized, messages, call,
                   ret, source, requests>>

\* the open or the write of the summary raises
WriteSummaryFail ==
    /\ pc = "write_summary"
    /\ cache' \in file_write_failed(cache, cached_summary_file(file_hash),
                                    summary)
    /\ Raise("IOError")
    /\ origin' = IF os_path_exists(cache', cached_summary_file(file_hash))
               THEN file_write(origin, cached_summary_file(file_hash),
                               [digest |-> source.summary, chunks |-> summarized_contents])
               ELSE origin
    /\ ops' = Append(ops, [op |-> "write", file |-> cached_summary_file(file_hash),
                         found |-> FALSE])
    /\ UNCHANGED <<cache_exists, args, file_hash, segments, i, transcriptions,
                   transcript, chunks, summaries, summary, user_question,
                   snapshot, prev, transcribed, summarized, messages, call,
                   ret, source, requests>>

(***************************************************************************)
(* query_mode                                                              *)
(***************************************************************************)
\* query_mode(summary): main holds the summary and enters the query loop
EnterQueryMode ==
    /\ pc = "summary_ready"
    /\ pc' = "query_read"
    /\ UNCHANGED <<cache_exists, cache, args, file_hash, segments, i,
                   transcriptions, transcript, chunks, summaries, summary,
                   user_question, err, snapshot, prev, transcribed, summarized,
                   messages, requests, origin, source, ops, call, ret>>

\* a loop that compares the line with "exit" without lowering it
ReadQuestion_case_sensitive ==
    /\ pc = "query_read"
    /\ \E line \in Lines :
           /\ user_question' = line
           /\ IF line = <<"e", "x", "i", "t">>
              THEN pc' = "done" /\ messages' = messages
              ELSE /\ pc' = "query_call"
                   /\ messages' = <<"You are a helpful assistant.", summary,
                                    line>>
    /\ UNCHANGED <<cache_exists, cache, args, file_hash, segments, i,
                   transcriptions, transcript, chunks, summaries, summary, err,
                   snapshot, prev, transcribed, summarized, call, ret, origin,
                   source, requests, ops>>

\* a loop that sends the previous question along with the current one
ReadQuestion_with_memory ==
    /\ pc = "query_read"
    /\ \E line \in Lines :
           /\ user_question' = line
           /\ IF str_lower(line) = <<"e", "x", "i", "t">>
              THEN pc' = "done" /\ messages' = messages
              ELSE /\ pc' = "query_call"
                   /\ messages' = <<"You are a helpful assistant.", summary,
                                    user_question, line>>
    /\ UNCHANGED <<cache_exists, cache, args, file_hash, segments, i,
                   transcriptions, transcript, chunks, summaries, summary, err,
                   snapshot, prev, transcribed, summarized, call, ret, origin,
                   source, requests, ops>>

\* user_question = input(...); if user_question.lower() == "exit": break;
\* otherwise the three messages of the request are built
ReadQuestion ==
    /\ pc = "query_read"
    /\ \E line \in Lines :
           /\ user_question' = line
           /\ IF str_lower(line) = <<"e", "x", "i", "t">>
              THEN pc' = "done" /\ messages' = messages
              ELSE /\ pc' = "query_call"
                   /\ messages' = <<"You are a helpful assistant.", summary,
                                    line>>
    /\ UNCHANGED <<cache_exists, cache, args, file_hash, segments, i,
                   transcriptions, transcript, chunks, summaries, summary, err,
                   snapshot, prev, transcribed, summarized, call, ret, origin,
                   source, requests, ops>>

\* openai.ChatCompletion.create returns and the answer is printed
QueryAnswer ==
    /\ pc = "query_call"
    /\ pc' = "query_read"
    /\ requests' = requests \cup {messages}
    /\ UNCHANGED <<cache_exists, cache, args, file_hash, segments, i,
                   transcriptions, transcript, chunks, summaries, summary,
                   user_question, err, snapshot, prev, transcribed, summarized,
                   messages, call, ret, origin, source, ops>>

\* a query loop that catches the error and asks for the next question
QueryFail_caught ==
    /\ pc = "query_call"
    /\ pc' = "query_read"
    /\ err' = "QueryError"
    /\ requests' = requests \cup {messages}
    /\ UNCHANGED <<cache_exists, cache, args, file_hash, segments, i,
                   transcriptions, transcript, chunks, summaries, summary,
                   user_question, snapshot, prev, transcribed, summarized,
                   messages, call, ret, origin, source, ops>>

\* openai.ChatCompletion.create raises: nothing in query_mode or main
\* catches it
QueryFail ==
    /\ pc = "query_call"
    /\ Raise("QueryError")
    /\ requests' = requests \cup {messages}
    /\ UNCHANGED <<cache_exists, cache, args, file_hash, segments, i,
                   transcriptions, transcript, chunks, summaries, summary,
                   user_question, snapshot, prev, transcribed, summarized,
                   messages, call, ret, origin, source, ops>>

Next ==
    \/ Invoke
    \/ ClearCache
    \/ MakeDirs
    \/ Hash
    \/ HashFail
    \/ TranscriptHit
    \/ TranscriptReadFail
    \/ TranscriptMiss
    \/ TranscribeSegment
    \/ TranscribeFail
    \/ TranscribeReturn
    \/ WriteTranscript
    \/ WriteTranscriptFail
    \/ SummaryHit
    \/ SummaryReadFail
    \/ SummaryMiss
    \/ SummarizeChunk
    \/ SummarizeFail
    \/ SummarizeReturn
    \/ WriteSummary
    \/ WriteSummaryFail
    \/ EnterQueryMode
    \/ ReadQuestion
    \/ QueryAnswer
    \/ QueryFail

Spec == Init /\ [][Next]_vars

(***************************************************************************)
(* split_transcript on its own: every text of at most MaxTextLen           *)
(* characters and every chunk size from 1 to MaxChunkWords.                *)
(***************************************************************************)
Alphabet == {"a", "b", " "}

Texts == UNION { [1..n -> Alphabet] : n \in 0..MaxTextLen }

InitSplitTranscript ==
    /\ PipelineInit
    /\ \E text \in Texts, n \in 1..MaxChunkWords :
           call = [fn |-> "split_transcript", text |-> text, max_length |-> n]
    /\ ret = NoRet

ApplySplitTranscript ==
    /\ call.fn = "split_transcript"
    /\ ~ret.done
    /\ ret' = [done |-> TRUE,
               value |-> split_transcript(call.text, call.max_length)]
    /\ UNCHANGED <<pipeline_vars, call>>

NextSplitTranscript == ApplySplitTranscript

SpecSplitTranscript == InitSplitTranscript /\ [][NextSplitTranscript]_vars

\* the number of words of a chunk
chunk_words(chunk) == Len(str_split(chunk))

\* C7: for every text and every chunk size n >= 1, the chunks of
\* split_transcript joined by single spaces are the words of the text joined
\* by single spaces; every chunk has between 1 and n words, every chunk but
\* the last has exactly n, and a text without words gives no chunk.
C7_SplitTranscriptPartition ==
    ret.done =>
        LET words == str_split(call.text)
            out == ret.value
            n == call.max_length
        IN /\ str_join(<<" ">>, out) = str_join(<<" ">>, words)
           /\ \A k \in 1..Len(out) : chunk_words(out[k]) \in 1..n
           /\ \A k \in 1..(Len(out) - 1) : chunk_words(out[k]) = n
           /\ (words = <<>> => out = <<>>)

\* a text with surrounding and repeated whitespace split into several
\* chunks, the last one shorter than the chunk size
C7_Witness ==
    /\ ret.done
    /\ call.fn = "split_transcript"
    /\ Len(ret.value) >= 2
    /\ chunk_words(ret.value[Len(ret.value)]) < call.max_length
    /\ str_join(<<" ">>, ret.value) # call.text

(***************************************************************************)
(* split_audio on its own: every duration up to MaxDuration with every     *)
(* segment length from 1 to MaxSegmentLength, and the end-to-end scenario  *)
(* of 700000 ms cut at the default segment length.                         *)
(***************************************************************************)
InitSplitAudio ==
    /\ PipelineInit
    /\ \/ \E d \in 0..MaxDuration, n \in 1..MaxSegmentLength :
              call = [fn |-> "split_audio", duration |-> d,
                      segment_length |-> n]
       \/ call = [fn |-> "split_audio", duration |-> 700000,
                  segment_length |-> segment_length]
    /\ ret = NoRet

ApplySplitAudio ==
    /\ call.fn = "split_audio"
    /\ ~ret.done
    /\ ret' = [done |-> TRUE,
               value |-> split_audio(call.duration, call.segment_length)]
    /\ UNCHANGED <<pipeline_vars, call>>

NextSplitAudio == ApplySplitAudio

SpecSplitAudio == InitSplitAudio /\ [][NextSplitAudio]_vars

\* C8: for every duration D >= 0 and segment length d >= 1, split_audio
\* returns ceil(D/d) segments, the k-th being [(k-1)d, min(kd, D)): they
\* start at 0, end at D, each begins where the one before ends, all but the
\* last have length d, the last is not empty, D = 0 gives none, and
\* D = 700000 with d = 300000 gives lengths 300000, 300000, 100000.
C8_SplitAudioCovers ==
    ret.done =>
        LET D == call.duration
            d == call.segment_length
            out == ret.value
            n == Len(out)
        IN /\ n = (D + d - 1) \div d
           /\ \A k \in 1..n : /\ out[k].start = (k - 1) * d
                              /\ out[k].end = Min(k * d, D)
                              /\ out[k].start < out[k].end
           /\ \A k \in 1..(n - 1) : /\ out[k].end - out[k].start = d
                                    /\ out[k].end = out[k + 1].start
           /\ (n > 0 => out[1].start = 0 /\ out[n].end = D)
           /\ (D = 0 => out = <<>>)
           /\ (D = 700000 /\ d = 300000 =>
                  [k \in 1..n |-> out[k].end - out[k].start]
                      = <<300000, 300000, 100000>>)

\* an audio that does not divide evenly: several segments, the last shorter
C8_Witness ==
    /\ ret.done
    /\ call.fn = "split_audio"
    /\ Len(ret.value) >= 3
    /\ ret.value[Len(ret.value)].end - ret.value[Len(ret.value)].start
           < call.segment_length

(***************************************************************************)
(* Properties of the pipeline, checked under Spec.                         *)
(***************************************************************************)
\* the invocation holds a transcript: it is past the transcript step
TranscriptReady ==
    /\ file_hash # NoHash
    /\ pc \in {"lookup_summary", "summarizing", "write_summary",
               "summary_ready", "query_read", "query_call", "done"}

\* the invocation holds a summary: it is past the summary step
SummaryReady ==
    /\ file_hash # NoHash
    /\ pc \in {"summary_ready", "query_read", "query_call", "done"}

\* the segment numbers of the transcription calls of this invocation
transcribed_segments == [k \in 1..Len(transcribed) |-> transcribed[k].segment]

\* the texts the transcription service returned in this invocation
transcribed_texts == [k \in 1..Len(transcribed) |-> transcribed[k].text]

\* the chunk numbers of the summarization calls of this invocation
summarized_chunks == [k \in 1..Len(summarized) |-> summarized[k].chunk]

\* 1, 2, ..., n
first_n(n) == [k \in 1..n |-> k]

\* this invocation runs on the input of the previous one, which ended with error
RetryAfter(error) ==
    /\ prev.kind = "run"
    /\ prev.err = error
    /\ file_hash # NoHash
    /\ file_hash = prev.file_hash

\* C1: when the cache held a transcript for the fingerprint at the start of
\* the invocation, the invocation calls the transcription service not once
\* and its transcript is the cached text.
C1_CachedTranscriptSkipsTranscription ==
    (/\ file_hash # NoHash
     /\ os_path_exists(snapshot, cached_transcript_file(file_hash)))
    => /\ transcribed = <<>>
       /\ pc \notin {"transcribing", "write_transcript"}
       /\ (TranscriptReady =>
               transcript = snapshot[cached_transcript_file(file_hash)])

\* a second invocation on byte-identical input under another path that
\* took the transcript from the cache
C1_Witness ==
    /\ args.audio_file = "copy.mp3"
    /\ os_path_exists(snapshot, cached_transcript_file(file_hash))
    /\ pc = "lookup_summary"
    /\ Len(transcript) > MaxPartialWrite

\* C2: an invocation that the transcription service failed leaves no
\* transcript entry for its fingerprint, and the next invocation on the same
\* input finds none and calls the service for segments 1, 2, ... again.
C2_FailedTranscriptionCachesNothing ==
    /\ (pc = "aborted" /\ err = "TranscriptionError") =>
           ~os_path_exists(cache, cached_transcript_file(file_hash))
    /\ RetryAfter("TranscriptionError") =>
           /\ ~os_path_exists(snapshot, cached_transcript_file(file_hash))
           /\ transcribed_segments = first_n(Len(transcribed))
           /\ (TranscriptReady \/ pc = "write_transcript") =>
                  /\ Len(transcribed) = Len(segments)
                  /\ Len(transcribed) >= 1

\* the retry of a failed transcription has transcribed both segments again
C2_Witness ==
    /\ RetryAfter("TranscriptionError")
    /\ pc = "write_transcript"
    /\ transcribed_segments = <<1, 2>>

\* C3: an invocation that the summarization service failed leaves no summary
\* entry for its fingerprint and leaves the transcript entry present and
\* equal to the transcript it used; the next invocation on the same input
\* calls no transcription and summarizes chunks 1, 2, ... again.
C3_FailedSummarizationKeepsTranscript ==
    /\ (pc = "aborted" /\ err = "SummarizationError") =>
           /\ ~os_path_exists(cache, cached_summary_file(file_hash))
           /\ os_path_exists(cache, cached_transcript_file(file_hash))
           /\ cache[cached_transcript_file(file_hash)] = transcript
           /\ os_path_exists(snapshot, cached_transcript_file(file_hash)) =>
                  transcript = snapshot[cached_transcript_file(file_hash)]
    /\ RetryAfter("SummarizationError") =>
           /\ transcribed = <<>>
           /\ pc \notin {"transcribing", "write_transcript"}
           /\ ~os_path_exists(snapshot, cached_summary_file(file_hash))
           /\ summarized_chunks = first_n(Len(summarized))
           /\ (SummaryReady \/ pc = "write_summary") =>
                  /\ Len(summarized) = Len(chunks)
                  /\ Len(summarized) >= 1

\* the retry of a failed summarization has summarized both chunks again
\* without transcribing
C3_Witness ==
    /\ RetryAfter("SummarizationError")
    /\ pc = "write_summary"
    /\ summarized_chunks = <<1, 2>>
    /\ transcribed = <<>>

\* C4 as claimed: when the query service fails on a question, the loop goes
\* on to read the next question.
C4_QueryErrorKeepsLoop ==
    [][(pc = "query_call" /\ err' = "QueryError") => pc' = "query_read"]_vars

\* C4 as amended: when the query service fails on a question, the exception
\* leaves query_mode and main: the invocation ends at once with that error,
\* reads no further question and leaves the cache as it was.
C4_QueryErrorEndsRun ==
    /\ [](err = "QueryError" => pc = "aborted")
    /\ [][(pc = "query_call" /\ err' = "QueryError") =>
              /\ pc' = "aborted"
              /\ cache' = cache
              /\ cache_exists' = cache_exists
              /\ user_question' = user_question]_vars

\* an invocation ended by the failure of a query
C4_Witness ==
    /\ pc = "aborted"
    /\ err = "QueryError"
    /\ messages # <<>>

\* C5: an invocation with the clear-cache flag goes from its start to its
\* end without fingerprinting, transcribing, summarizing or querying.
C5_ClearCacheOnlyClears ==
    args.clear_cache =>
        /\ pc \in {"main", "done"}
        /\ file_hash = NoHash
        /\ transcribed = <<>>
        /\ summarized = <<>>
        /\ messages = <<>>
        /\ cache \in {snapshot, NoFiles}

\* C6: an invocation ended by a failure of fingerprinting or of a cache read
\* or write leaves the cache files as they were when it started.
C6_IOErrorCachesNothing ==
    (pc = "aborted" /\ err = "IOError") => cache = snapshot

\* t1 ' ' t2 ' ' ... tn ' ': every text followed by one space
RECURSIVE each_followed_by_space(_)
each_followed_by_space(texts) ==
    IF texts = <<>> THEN <<>>
    ELSE Head(texts) \o <<" ">> \o each_followed_by_space(Tail(texts))

is_prefix(s, t) == Len(s) <= Len(t) /\ s = SubSeq(t, 1, Len(s))

\* this invocation found no cached transcript and has called, or is calling,
\* transcribe_audio_segments
TranscribedHere ==
    /\ file_hash # NoHash
    /\ ~os_path_exists(snapshot, cached_transcript_file(file_hash))

\* C9 as claimed: the transcript returned and cached is t1, ..., tn joined by
\* a single space between consecutive results, with none after the last.
C9_TranscriptJoinedBetween ==
    (TranscribedHere /\ (TranscriptReady \/ pc = "write_transcript")) =>
        /\ transcript = str_join(<<" ">>, transcribed_texts)
        /\ TranscriptReady =>
               cache[cached_transcript_file(file_hash)] = transcript

\* C9 as amended: the transcript returned is t1, ..., tn in segment order,
\* each result followed by one space (one space between consecutive results
\* and one after the last, none before the first); main writes that text as
\* the transcript entry, which holds exactly it once the write has
\* completed, and a prefix of it or nothing when the write failed.
C9_TranscriptJoinedTrailing ==
    TranscribedHere =>
        /\ (TranscriptReady \/ pc = "write_transcript") =>
               transcript = each_followed_by_space(transcribed_texts)
        /\ TranscriptReady =>
               /\ os_path_exists(cache, cached_transcript_file(file_hash))
               /\ cache[cached_transcript_file(file_hash)] = transcript
        /\ os_path_exists(cache, cached_transcript_file(file_hash)) =>
               is_prefix(cache[cached_transcript_file(file_hash)], transcript)

\* two segments with different transcriptions, written to the cache
C9_Witness ==
    /\ TranscribedHere
    /\ pc = "lookup_summary"
    /\ transcribed_texts = << <<"b", " ", "c">>, <<"a">> >>
    /\ cache[cached_transcript_file(file_hash)]
           = <<"b", " ", "c", " ", "a", " ">>

\* C10: every step leaves every cache file with its content, except the
\* clear-cache step, which removes all of them.
C10_EntriesNeverRewritten ==
    [][\A f \in DOMAIN cache :
           \/ f \in DOMAIN cache' /\ cache'[f] = cache[f]
           \/ cache' = NoFiles /\ pc = "main" /\ args.clear_cache]_vars

\* an invocation that found both entries of its fingerprint, written by an
\* earlier invocation, and went on to the query loop with the cache as it was
C10_Witness ==
    /\ prev.kind = "run"
    /\ SummaryReady
    /\ os_path_exists(snapshot, cached_transcript_file(file_hash))
    /\ os_path_exists(snapshot, cached_summary_file(file_hash))
    /\ cache = snapshot
    /\ summary = cache[cached_summary_file(file_hash)]

\* the fingerprints of the audio files
Digests == { calculate_audio_file_hash(path) : path \in AudioFiles }

\* C11: every summary entry stored under a fingerprint was computed from the
\* chunks of the transcript stored under the same fingerprint, itself
\* computed from audio of that fingerprint; the summary an invocation holds,
\* and sends as the context of its queries, comes from its own fingerprint.
C11_SummaryOfSameFingerprint ==
    /\ \A h \in Digests :
           os_path_exists(cache, cached_summary_file(h)) =>
               /\ origin[cached_summary_file(h)].digest = h
               /\ os_path_exists(cache, cached_transcript_file(h))
               /\ origin[cached_transcript_file(h)].digest = h
               /\ origin[cached_summary_file(h)].chunks
                      = split_transcript(cache[cached_transcript_file(h)],
                                         max_length)
    /\ SummaryReady => source.summary = file_hash
    /\ \A r \in requests : r[2] = summary

\* both inputs have their summaries cached, with different texts, and an
\* invocation has sent a query
C11_Witness ==
    /\ \A h \in Digests : os_path_exists(cache, cached_summary_file(h))
    /\ \E g, h \in Digests :
           cache[cached_summary_file(g)] # cache[cached_summary_file(h)]
    /\ requests # {}
    /\ prev.kind = "run" /\ prev.file_hash # file_hash

\* C12: when the cache holds a summary for the fingerprint at the summary
\* step, the invocation calls the summarization service not once and its
\* summary, the context of its queries, is the cached text; the service is
\* called only when there was none.
C12_CachedSummarySkipsSummarization ==
    /\ (/\ file_hash # NoHash
        /\ os_path_exists(snapshot, cached_summary_file(file_hash)))
       => /\ summarized = <<>>
          /\ pc \notin {"summarizing", "write_summary"}
          /\ SummaryReady =>
                 /\ summary = snapshot[cached_summary_file(file_hash)]
                 /\ pc = "query_call" => messages[2] = summary
    /\ pc = "lookup_summary" =>
           (os_path_exists(cache, cached_summary_file(file_hash))
                <=> os_path_exists(snapshot, cached_summary_file(file_hash)))
    /\ summarized # <<>> =>
           ~os_path_exists(snapshot, cached_summary_file(file_hash))

\* a query sent with a cached summary of two chunks as its context
C12_Witness ==
    /\ pc = "query_call"
    /\ os_path_exists(snapshot, cached_summary_file(file_hash))
    /\ messages[2] = snapshot[cached_summary_file(file_hash)]
    /\ Len(summary) > MaxPartialWrite + 1
    /\ summarized = <<>>

\* C13: the clear-cache step on an existing cache directory leaves no
\* transcript and no summary entry for any fingerprint.
C13_ClearCacheRemovesAll ==
    [][(pc = "main" /\ args.clear_cache /\ cache_exists) =>
           /\ pc' = "done"
           /\ \A h \in Digests :
                  /\ ~os_path_exists(cache', cached_transcript_file(h))
                  /\ ~os_path_exists(cache', cached_summary_file(h))]_vars

\* a clear-cache that found the transcripts and summaries of both inputs
C13_Witness ==
    /\ pc = "done"
    /\ args.clear_cache
    /\ file_hash = NoHash
    /\ \A h \in Digests :
           /\ os_path_exists(snapshot, cached_transcript_file(h))
           /\ os_path_exists(snapshot, cached_summary_file(h))
    /\ cache = NoFiles

\* C14: on a transcript miss the transcription service is called for
\* segments 1, 2, ... in this order, one call at a time; while the loop runs
\* and until main writes the file after the last call has returned, the
\* cache holds no transcript entry for the fingerprint; an entry written by
\* this invocation means every segment was transcribed exactly once.
C14_TranscribeAllThenCache ==
    /\ transcribed_segments = first_n(Len(transcribed))
    /\ pc = "transcribing" =>
           /\ Len(transcribed) = i
           /\ i <= Len(segments)
           /\ ~os_path_exists(cache, cached_transcript_file(file_hash))
    /\ pc = "write_transcript" =>
           /\ Len(transcribed) = Len(segments)
           /\ ~os_path_exists(cache, cached_transcript_file(file_hash))
    /\ (/\ TranscribedHere
        /\ os_path_exists(cache, cached_transcript_file(file_hash))) =>
           /\ Len(transcribed) = Len(segments)
           /\ pc \notin {"lookup_transcript", "transcribing",
                         "write_transcript"}
           /\ err # "TranscriptionError"

\* the loop between the first and the second of two segments, with the
\* other input's transcript already cached
C14_Witness ==
    /\ pc = "transcribing"
    /\ i = 1
    /\ Len(segments) = 2
    /\ cache # NoFiles
    /\ ~os_path_exists(cache, cached_transcript_file(file_hash))

\* the state of the orchestrator's state machine the invocation is in
run_state ==
    CASE pc \in {"main", "hash"} -> 0                       \* Init
      [] pc \in {"lookup_transcript", "transcribing",
                 "write_transcript"} -> 1                   \* FingerprintComputed
      [] pc \in {"lookup_summary", "summarizing",
                 "write_summary"} -> 2                      \* TranscriptReady
      [] pc = "summary_ready" -> 3                          \* SummaryReady
      [] pc \in {"query_read", "query_call"} -> 4           \* Querying
      [] pc = "done" -> 5                                   \* Done
      [] OTHER -> 6                                         \* not running

Running == pc \notin {"idle", "done", "aborted"}

\* C15: every step of an invocation without the clear-cache flag stays in
\* its state or moves to the next of Init, FingerprintComputed,
\* TranscriptReady, SummaryReady, Querying, Done, unless an exception ends
\* the invocation where it is; the fingerprint is computed before any cache
\* lookup and never changes, summarize calls happen only in TranscriptReady
\* and queries are sent only in Querying.
C15_StatesInOrder ==
    /\ [](ops # <<>> => file_hash # NoHash)
    /\ [][(Running /\ ~args.clear_cache) =>
              /\ \/ run_state' \in {run_state, run_state + 1}
                 \/ pc' = "aborted" /\ err' # "none"
              /\ file_hash # NoHash => file_hash' = file_hash
              /\ file_hash' # file_hash => (run_state = 0 /\ run_state' = 1)
              /\ ops' # ops => run_state \in {1, 2}
              /\ summarized' # summarized => run_state = 2
              /\ requests' # requests => run_state = 4]_vars

\* an invocation that transcribed, summarized, answered a query and ended
\* on the exit keyword
C15_Witness ==
    /\ pc = "done"
    /\ ~args.clear_cache
    /\ transcribed # <<>>
    /\ summarized # <<>>
    /\ requests # {}

(***************************************************************************)
(* The query loop under the assumptions of its termination: a call of the  *)
(* query service that does not raise returns, and a user who keeps being   *)
(* asked for a line eventually enters the exit keyword.                    *)
(***************************************************************************)
\* the user enters a line that lowers to "exit"
ReadExit == ReadQuestion /\ pc' = "done"

FairSpec == Spec /\ WF_vars(QueryAnswer) /\ SF_vars(ReadExit)

Exit == <<"e", "x", "i", "t">>

\* C16: a line read ends the loop exactly when it equals "exit" after
\* lowering, and then no request is built or sent for it; any other line is
\* sent to the query service in one call, after which the loop reads again
\* or the call's exception ends the invocation; a pipeline invocation ends
\* normally only from reading a line; and once in the loop, the invocation
\* reaches Done unless a query call raises.
C16_ExitEndsLoop ==
    /\ [][pc = "query_read" =>
              /\ pc' = "done" <=> str_lower(user_question') = Exit
              /\ pc' = "done" =>
                     messages' = messages /\ requests' = requests
              /\ pc' # "done" =>
                     /\ pc' = "query_call"
                     /\ messages'[3] = user_question'
                     /\ requests' = requests]_vars
    /\ [][pc = "query_call" =>
              /\ pc' \in {"query_read", "aborted"}
              /\ requests' = requests \cup {messages}
              /\ messages[3] = user_question]_vars
    /\ [][(pc' = "done" /\ file_hash' # NoHash) => pc = "query_read"]_vars
    /\ (pc = "query_read") ~> (pc = "done" \/ err = "QueryError")

\* the loop ended on "ExIT" after it had sent "exit " to the query service
C16_Witness ==
    /\ pc = "done"
    /\ user_question = <<"E", "x", "I", "T">>
    /\ \E r \in requests : r[3] = <<"e", "x", "i", "t", " ">>

\* the request query_mode builds from a summary and a question alone
request_for(context, question) ==
    <<"You are a helpful assistant.", context, question>>

\* the requests sent so far and the one being sent
requests_made == requests \cup (IF pc = "query_call" THEN {messages} ELSE {})

\* C17: every request of a query loop is made of the summary and the
\* question of its iteration alone, so two requests for the same question
\* are identical whatever was asked and answered before them, and the
\* summary is the same in every iteration.
C17_RequestsCarryNoHistory ==
    /\ [](\A r \in requests_made : r = request_for(summary, r[3]))
    /\ [](\A r1, r2 \in requests_made : r1[3] = r2[3] => r1 = r2)
    /\ [][(pc \in {"summary_ready", "query_read", "query_call"}) =>
              (summary' = summary \/ pc' = "main")]_vars

\* a question asked again after a different question had been sent
C17_Witness ==
    /\ pc = "query_call"
    /\ Cardinality(requests) = 2
    /\ messages \in requests

\* the operations on the cache files the invocation has made so far
lookups(file) ==
    { k \in 1..Len(ops) : ops[k].op = "lookup" /\ ops[k].file = file }
writes(file) ==
    { k \in 1..Len(ops) : ops[k].op = "write" /\ ops[k].file = file }

\* C18: an invocation writes a cache file only after its own lookup of that
\* file found it absent, looks up and writes each file at most once, touches
\* only the two files of its fingerprint, and changes the cache by nothing
\* but its writes: when both lookups hit the cache is as it was at the start.
C18_WriteOnlyAfterMiss ==
    /\ \A k \in 1..Len(ops) :
           /\ ops[k].file \in {cached_transcript_file(file_hash),
                               cached_summary_file(file_hash)}
           /\ Cardinality(lookups(ops[k].file)) <= 1
           /\ Cardinality(writes(ops[k].file)) <= 1
           /\ ops[k].op = "write" =>
                  \E j \in 1..(k - 1) :
                      /\ ops[j].op = "lookup"
                      /\ ops[j].file = ops[k].file
                      /\ ~ops[j].found
    /\ (file_hash # NoHash /\ \A k \in 1..Len(ops) : ops[k].op # "write") =>
           cache = snapshot
    /\ (file_hash # NoHash /\ Running) =>
           \A f \in DOMAIN cache :
               f \in DOMAIN snapshot \/ writes(f) # {}

\* an invocation that missed and wrote both the transcript and the summary
C18_Witness ==
    /\ pc = "summary_ready"
    /\ Len(ops) = 4
    /\ writes(cached_transcript_file(file_hash)) = {2}
    /\ writes(cached_summary_file(file_hash)) = {4}
    /\ snapshot # NoFiles

\* C19: the cache never holds a summary entry for a fingerprint without a
\* transcript entry for the same fingerprint.
C19_SummaryImpliesTranscript ==
    \A h \in Digests :
        os_path_exists(cache, cached_summary_file(h)) =>
            os_path_exists(cache, cached_transcript_file(h))

\* one input with transcript and summary cached, and the invocation on the
\* other input ended by a summarization failure with its transcript cached
C19_Witness ==
    /\ pc = "aborted"
    /\ err = "SummarizationError"
    /\ os_path_exists(cache, cached_transcript_file(file_hash))
    /\ ~os_path_exists(cache, cached_summary_file(file_hash))
    /\ \E g \in Digests :
           /\ os_path_exists(cache, cached_summary_file(g))
           /\ os_path_exists(cache, cached_transcript_file(g))

====
